---- MODULE Spec2Model ----
(***************************************************************************)
(* fluent-serde: the serde Serializer adapters that turn a self-describing *)
(* value into a FluentValue (ValueSerializer, src/src/ser/value.rs) or     *)
(* into insertions into a FluentArgs mapping (ArgsSerializer,              *)
(* src/src/ser/args.rs).                                                   *)
(*                                                                         *)
(* Text is a sequence of Unicode scalar values, a byte string a sequence   *)
(* of 0..255, a double a sign and a magnitude in little-endian bits, so    *)
(* that 128-bit integers and the rounding of `as f64` are exact.           *)
(***************************************************************************)
EXTENDS Integers, Sequences, FiniteSets, TLC

VARIABLES
    value,        \* ValueSerializer.value: the slot, NoneOpt or Some(FluentValue)
    input,        \* the argument of the last call
    result,       \* what the last call returned
    called,       \* the name of the last call ("" before any call)
    prev_value,   \* the slot before the last call
    guard,        \* an Unsupported guard value was handed out
    args,         \* ArgsSerializer.args: FluentArgs, a sequence of <<key, value>>
    current_key,  \* SerMap.current_key: NoneOpt or Some(text)
    live,         \* the composite interface in use: "none", "map", "struct", "variant", "done"
    prev_args,    \* args before the last call
    prev_key,     \* current_key before the last call
    args0,        \* the mapping the ArgsSerializer was constructed with
    merged,       \* ghost: args0 overridden by each pair presented so far, in order
    presented,    \* ghost: the keys of the pairs presented so far
    offered,      \* ghost: the text of the key the last successful key call gave
    map_ok,       \* ghost: every call on the live SerMap has succeeded so far
    lead,         \* ghost: successful key calls minus successful value calls on it
    fails,        \* ghost: number of calls that failed so far, capped at 2
    returned      \* what done() returned: NoneOpt before it, then Some(FluentArgs)

vars == <<value, input, result, called, prev_value, guard, args, current_key,
          live, prev_args, prev_key, args0, merged, presented, offered, map_ok,
          lead, fails, returned>>

valueVars == <<value, prev_value>>
argsVars == <<args, current_key, live, prev_args, prev_key, args0, merged,
              presented, offered, map_ok, lead, fails, returned>>

-----------------------------------------------------------------------------
(* Option<T> *)

NoneOpt == <<>>
Some(x) == <<x>>
is_some(o) == o # NoneOpt
is_none(o) == o = NoneOpt

-----------------------------------------------------------------------------
(* Result<T, Error> and the Error enum of src/src/ser.rs *)

UnsupportedType == [kind |-> "UnsupportedType", msg |-> ""]
AlreadyUsed == [kind |-> "AlreadyUsed", msg |-> ""]
NonUtf8Bytes == [kind |-> "NonUtf8Bytes", msg |-> ""]
InvalidSerMap == [kind |-> "InvalidSerMap", msg |-> ""]

\* impl serde::ser::Error for Error: custom(msg) is Error::Custom(msg.to_string())
Error_custom(msg) == [kind |-> "Custom", msg |-> msg]

\* the panic of unreachable!(): not an Error value, a fatal assertion
Unreachable == [kind |-> "unreachable!", msg |-> ""]

Ok(x) == [ok |-> TRUE, val |-> x]
Err(e) == [ok |-> FALSE, err |-> e]
Unit == "()"

-----------------------------------------------------------------------------
(* Numbers: a magnitude is its binary digits, least significant first,     *)
(* with no leading zero digit; zero is <<>>.                               *)

RECURSIVE NatBits(_)
NatBits(n) == IF n = 0 THEN <<>> ELSE <<n % 2>> \o NatBits(n \div 2)

Zeros(k) == [i \in 1..k |-> 0]

Ones(k) == [i \in 1..k |-> 1]

\* 2^k + r for 0 <= r < 2^k
Pow2Plus(k, r) == LET low == NatBits(r) IN low \o Zeros(k - Len(low)) \o <<1>>

\* magnitude + 1
Incr(m) ==
    IF \A i \in 1..Len(m) : m[i] = 1 THEN Zeros(Len(m)) \o <<1>>
    ELSE LET z == CHOOSE i \in 1..Len(m) :
                     m[i] = 0 /\ \A j \in 1..(i - 1) : m[j] = 1
         IN Zeros(z - 1) \o <<1>> \o SubSeq(m, z + 1, Len(m))

\* f64: 53 bits of significand (52 stored and the implicit one)
F64_MANTISSA_DIGITS == 53

Double(neg, mag) == [neg |-> neg, mag |-> mag]

\* `v as f64` for an integer v: round to nearest, ties to even, on the
\* significand; an integer of at most 128 bits never overflows the exponent.
AsF64(neg, mag) ==
    IF Len(mag) <= F64_MANTISSA_DIGITS THEN Double(neg, mag)
    ELSE LET drop == Len(mag) - F64_MANTISSA_DIGITS
             kept == SubSeq(mag, drop + 1, Len(mag))
             half == mag[drop] = 1
             sticky == \E i \in 1..(drop - 1) : mag[i] = 1
             up == half /\ (sticky \/ kept[1] = 1)
         IN Double(neg, Zeros(drop) \o (IF up THEN Incr(kept) ELSE kept))

-----------------------------------------------------------------------------
(* FluentValue<'static> (fluent crate): String, Number, None *)

FluentString(text) == [tag |-> "String", text |-> text]
FluentNumber(d) == [tag |-> "Number", n |-> d, options |-> "default"]
FluentNone == [tag |-> "None"]

-----------------------------------------------------------------------------
(* std::str::from_utf8, as called by serialize_bytes *)

IsCont(b) == b >= 128 /\ b <= 191

\* UTF8_CHAR_WIDTH of the first byte: 0 for a byte that starts no sequence
Utf8Width(b) ==
    IF b < 128 THEN 1
    ELSE IF b >= 194 /\ b <= 223 THEN 2
    ELSE IF b >= 224 /\ b <= 239 THEN 3
    ELSE IF b >= 240 /\ b <= 244 THEN 4
    ELSE 0

\* the range the second byte of a 3- or 4-byte sequence must lie in
SecondOk(first, second) ==
    CASE first = 224 -> second >= 160 /\ second <= 191
      [] first = 237 -> second >= 128 /\ second <= 159
      [] first = 240 -> second >= 144 /\ second <= 191
      [] first = 244 -> second >= 128 /\ second <= 143
      [] OTHER -> IsCont(second)

RECURSIVE from_utf8(_)
from_utf8(v) ==
    IF v = <<>> THEN Ok(<<>>)
    ELSE LET w == Utf8Width(v[1]) IN
         IF w = 0 \/ Len(v) < w THEN Err("Utf8Error")
         ELSE IF w >= 2 /\ ~SecondOk(v[1], v[2]) THEN Err("Utf8Error")
         ELSE IF \E i \in 3..w : ~IsCont(v[i]) THEN Err("Utf8Error")
         ELSE LET cp == CASE w = 1 -> v[1]
                          [] w = 2 -> (v[1] % 32) * 64 + (v[2] % 64)
                          [] w = 3 -> (v[1] % 16) * 4096 + (v[2] % 64) * 64
                                      + (v[3] % 64)
                          [] w = 4 -> (v[1] % 8) * 262144 + (v[2] % 64) * 4096
                                      + (v[3] % 64) * 64 + (v[4] % 64)
                  rest == from_utf8(SubSeq(v, w + 1, Len(v)))
              IN IF rest.ok THEN Ok(<<cp>> \o rest.val) ELSE rest

-----------------------------------------------------------------------------
(* Self-describing values: what a Serialize implementation presents.  The  *)
(* shape decides the one Serializer method the value calls.                *)

Bool(b) == [shape |-> "bool", b |-> b]
Integer(signed, w, neg, mag) ==
    [shape |-> "int", signed |-> signed, w |-> w, neg |-> neg, mag |-> mag]
Float(w, d) == [shape |-> "float", w |-> w, d |-> d]
Char(c) == [shape |-> "char", c |-> c]
Str(text) == [shape |-> "str", text |-> text]
Bytes(bytes) == [shape |-> "bytes", bytes |-> bytes]
NoneV == [shape |-> "none"]
UnitV == [shape |-> "unit"]
UnitStruct(name) == [shape |-> "unit_struct", name |-> name]
UnitVariant(name, variant) ==
    [shape |-> "unit_variant", name |-> name, variant |-> variant]
SomeV(x) == [shape |-> "some", inner |-> x]
NewtypeStruct(name, x) == [shape |-> "newtype_struct", name |-> name, inner |-> x]
NewtypeVariant(name, variant, x) ==
    [shape |-> "newtype_variant", name |-> name, variant |-> variant, inner |-> x]
SeqV(items) == [shape |-> "seq", items |-> items]
TupleV(items) == [shape |-> "tuple", items |-> items]
TupleStruct(name, items) == [shape |-> "tuple_struct", name |-> name, items |-> items]
TupleVariant(name, variant, items) ==
    [shape |-> "tuple_variant", name |-> name, variant |-> variant, items |-> items]
\* entries: a sequence of <<key value, value>>
MapV(entries) == [shape |-> "map", entries |-> entries]
\* fields: a sequence of <<field name, value>>
StructV(name, fields) == [shape |-> "struct", name |-> name, fields |-> fields]
StructVariant(name, variant, fields) ==
    [shape |-> "struct_variant", name |-> name, variant |-> variant, fields |-> fields]
\* a value whose own Serialize implementation fails with S::Error::custom(msg)
Failing(msg) == [shape |-> "failing", msg |-> msg]

Wrappers == {"some", "newtype_struct", "newtype_variant"}
GuardShapes == {"seq", "tuple", "tuple_struct", "tuple_variant"}
CompositeShapes == GuardShapes \cup {"map", "struct", "struct_variant"}

-----------------------------------------------------------------------------
(* The Unsupported guard (src/src/ser/unsupported.rs, and the enum of the  *)
(* same name in value.rs): every method is unreachable!().                 *)

Guard == "Unsupported"
Unsupported_method == Err(Unreachable)

\* what a Serialize implementation does with the outcome r of an entry point
\* typed to return the guard: `?` on a failure, else it goes on to call the
\* guard's element/field methods and end(), the first of which panics.
DriveGuard(r) ==
    IF r.res.ok
    THEN [res |-> Unsupported_method, value |-> r.value, guard |-> TRUE]
    ELSE [res |-> r.res, value |-> r.value, guard |-> FALSE]

-----------------------------------------------------------------------------
(* ValueSerializer, src/src/ser/value.rs.  A method takes the slot (self)  *)
(* and returns the outcome and the slot afterwards.                        *)

\* mutant: the slot is overwritten without the is_some check
Mut_set_value(self, v) == [res |-> Ok(Unit), value |-> Some(v)]

ValueSerializer_set_value(self, v) ==
    IF is_some(self)
    THEN [res |-> Err(AlreadyUsed), value |-> self]
    ELSE [res |-> Ok(Unit), value |-> Some(v)]

ValueSerializer_serialize_bool(self, v) ==
    LET num == IF v THEN 1 ELSE 0
    IN ValueSerializer_set_value(self, FluentNumber(Double(FALSE, NatBits(num))))

\* impl_cast_num!, the ten integer instances: v as f64
ValueSerializer_impl_cast_num(self, neg, mag) ==
    ValueSerializer_set_value(self, FluentNumber(AsF64(neg, mag)))

\* impl_cast_num!, serialize_f32 and serialize_f64: f32 widens exactly
ValueSerializer_serialize_float(self, d) ==
    ValueSerializer_set_value(self, FluentNumber(d))

ValueSerializer_serialize_str(self, v) ==
    ValueSerializer_set_value(self, FluentString(v))

\* v.to_string() of a char is the one-character text
ValueSerializer_serialize_char(self, v) ==
    ValueSerializer_serialize_str(self, <<v>>)

\* mutant: lossy decoding, invalid bytes become U+FFFD
Mut_serialize_bytes(self, v) ==
    LET s == from_utf8(v)
    IN ValueSerializer_serialize_str(self, IF s.ok THEN s.val ELSE <<65533>>)

ValueSerializer_serialize_bytes(self, v) ==
    LET s == from_utf8(v)
    IN IF ~s.ok THEN [res |-> Err(NonUtf8Bytes), value |-> self]
       ELSE ValueSerializer_serialize_str(self, s.val)

ValueSerializer_serialize_none(self) ==
    ValueSerializer_set_value(self, FluentNone)

ValueSerializer_serialize_unit(self) ==
    ValueSerializer_set_value(self, FluentNone)

ValueSerializer_serialize_unit_struct(self, name) ==
    ValueSerializer_set_value(self, FluentString(name))

\* mutant: the enum's name in place of the variant's
Mut_serialize_unit_variant(self, name, variant) ==
    ValueSerializer_set_value(self, FluentString(name))

ValueSerializer_serialize_unit_variant(self, name, variant) ==
    ValueSerializer_set_value(self, FluentString(variant))

ValueSerializer_serialize_seq(self) ==
    [res |-> Err(UnsupportedType), value |-> self]

ValueSerializer_serialize_tuple(self) ==
    [res |-> Err(UnsupportedType), value |-> self]

ValueSerializer_serialize_tuple_struct(self) ==
    [res |-> Err(UnsupportedType), value |-> self]

ValueSerializer_serialize_struct(self) ==
    [res |-> Err(UnsupportedType), value |-> self]

ValueSerializer_serialize_tuple_variant(self) ==
    [res |-> Err(UnsupportedType), value |-> self]

ValueSerializer_serialize_map(self) ==
    [res |-> Err(UnsupportedType), value |-> self]

ValueSerializer_serialize_struct_variant(self) ==
    [res |-> Err(UnsupportedType), value |-> self]

RECURSIVE Value_serialize(_, _)

\* value.serialize(self)
ValueSerializer_serialize_some(self, v) == Value_serialize(self, v)

ValueSerializer_serialize_newtype_struct(self, name, v) == Value_serialize(self, v)

ValueSerializer_serialize_newtype_variant(self, name, variant, v) ==
    Value_serialize(self, v)

NoGuard(r) == [res |-> r.res, value |-> r.value, guard |-> FALSE]

\* v.serialize(&mut ValueSerializer): the one method v's shape calls
Value_serialize(self, v) ==
    CASE v.shape = "bool" -> NoGuard(ValueSerializer_serialize_bool(self, v.b))
      [] v.shape = "int" -> NoGuard(ValueSerializer_impl_cast_num(self, v.neg, v.mag))
      [] v.shape = "float" -> NoGuard(ValueSerializer_serialize_float(self, v.d))
      [] v.shape = "char" -> NoGuard(ValueSerializer_serialize_char(self, v.c))
      [] v.shape = "str" -> NoGuard(ValueSerializer_serialize_str(self, v.text))
      [] v.shape = "bytes" -> NoGuard(ValueSerializer_serialize_bytes(self, v.bytes))
      [] v.shape = "none" -> NoGuard(ValueSerializer_serialize_none(self))
      [] v.shape = "unit" -> NoGuard(ValueSerializer_serialize_unit(self))
      [] v.shape = "unit_struct" ->
            NoGuard(ValueSerializer_serialize_unit_struct(self, v.name))
      [] v.shape = "unit_variant" ->
            NoGuard(ValueSerializer_serialize_unit_variant(self, v.name, v.variant))
      [] v.shape = "some" -> ValueSerializer_serialize_some(self, v.inner)
      [] v.shape = "newtype_struct" ->
            ValueSerializer_serialize_newtype_struct(self, v.name, v.inner)
      [] v.shape = "newtype_variant" ->
            ValueSerializer_serialize_newtype_variant(self, v.name, v.variant, v.inner)
      [] v.shape = "seq" -> DriveGuard(ValueSerializer_serialize_seq(self))
      [] v.shape = "tuple" -> DriveGuard(ValueSerializer_serialize_tuple(self))
      [] v.shape = "tuple_struct" ->
            DriveGuard(ValueSerializer_serialize_tuple_struct(self))
      [] v.shape = "tuple_variant" ->
            DriveGuard(ValueSerializer_serialize_tuple_variant(self))
      [] v.shape = "map" -> DriveGuard(ValueSerializer_serialize_map(self))
      [] v.shape = "struct" -> DriveGuard(ValueSerializer_serialize_struct(self))
      [] v.shape = "struct_variant" ->
            DriveGuard(ValueSerializer_serialize_struct_variant(self))
      [] v.shape = "failing" ->
            [res |-> Err(Error_custom(v.msg)), value |-> self, guard |-> FALSE]

-----------------------------------------------------------------------------
(* The direct-return form of the single-value converter, which args.rs     *)
(* calls as x.serialize(ValueSerializer::new()): a fresh converter, the    *)
(* value it produced returned in place of ().                              *)

ValueSerializer_new == NoneOpt

serialize_direct(v) ==
    LET r == Value_serialize(ValueSerializer_new, v)
    IN [res |-> IF r.res.ok THEN Ok(r.value[1]) ELSE r.res, guard |-> r.guard]

-----------------------------------------------------------------------------
(* FluentArgs<'static> (fluent crate): pairs kept sorted by key, set       *)
(* overwrites the entry of an equal key.                                   *)

RECURSIVE TextLess(_, _)
TextLess(a, b) ==
    IF b = <<>> THEN FALSE
    ELSE IF a = <<>> THEN TRUE
    ELSE IF a[1] # b[1] THEN a[1] < b[1]
    ELSE TextLess(Tail(a), Tail(b))

FluentArgs_set(self, key, val) ==
    IF \E i \in 1..Len(self) : self[i][1] = key
    THEN LET idx == CHOOSE i \in 1..Len(self) : self[i][1] = key
         IN [self EXCEPT ![idx] = <<key, val>>]
    ELSE LET idx == Cardinality({i \in 1..Len(self) : TextLess(self[i][1], key)})
         IN SubSeq(self, 1, idx) \o <<<<key, val>>>> \o SubSeq(self, idx + 1, Len(self))

-----------------------------------------------------------------------------
(* ArgsSerializer, src/src/ser/args.rs.  self is the args field; a method  *)
(* returns its outcome, the interface it opened ("none" when it hands out  *)
(* nothing) and whether it handed out an Unsupported guard.                *)

ArgsSerializer_new == <<>>
ArgsSerializer_from_existing(a) == a
ArgsSerializer_done(self) == self

Closed(res) == [res |-> res, open |-> "none", guard |-> FALSE]

\* serialize_bool, _i8 .. _i64, _u8 .. _u64, _f32, _f64, _char, _str, _bytes
ArgsSerializer_serialize_scalar == Closed(Err(UnsupportedType))

\* serialize_i128 and serialize_u128 are not overridden: the provided methods
\* of the Serializer trait answer Error::custom("i128 is not supported")
ArgsSerializer_serialize_i128 == Closed(Err(Error_custom("i128 is not supported")))
ArgsSerializer_serialize_u128 == Closed(Err(Error_custom("u128 is not supported")))

ArgsSerializer_serialize_none == Closed(Ok(Unit))
ArgsSerializer_serialize_unit == Closed(Ok(Unit))
ArgsSerializer_serialize_unit_struct == Closed(Ok(Unit))
ArgsSerializer_serialize_unit_variant == Closed(Ok(Unit))

ArgsSerializer_serialize_seq == Err(UnsupportedType)
\* mutant: the guard is handed out
Mut_serialize_tuple == Ok(Guard)

ArgsSerializer_serialize_tuple == Err(UnsupportedType)
ArgsSerializer_serialize_tuple_struct == Err(UnsupportedType)
ArgsSerializer_serialize_tuple_variant == Err(UnsupportedType)

ArgsSerializer_serialize_map == [res |-> Ok("SerMap"), open |-> "map", guard |-> FALSE]
ArgsSerializer_serialize_struct ==
    [res |-> Ok("SerStruct"), open |-> "struct", guard |-> FALSE]
ArgsSerializer_serialize_struct_variant ==
    [res |-> Ok("SerStructVariant"), open |-> "variant", guard |-> FALSE]

\* the Serialize implementation's use of an entry point typed to return the
\* guard (see DriveGuard)
DriveArgsGuard(res) ==
    IF res.ok THEN [res |-> Unsupported_method, open |-> "none", guard |-> TRUE]
    ELSE Closed(res)

RECURSIVE Args_serialize(_)

ArgsSerializer_serialize_some(v) == Args_serialize(v)
ArgsSerializer_serialize_newtype_struct(name, v) == Args_serialize(v)
ArgsSerializer_serialize_newtype_variant(name, variant, v) == Args_serialize(v)

\* v.serialize(&mut ArgsSerializer): the one method v's shape calls.  No
\* top-level method reads or writes args; the composite ones hand out the
\* interface that will.
Args_serialize(v) ==
    CASE v.shape \in {"bool", "float", "char", "str", "bytes"} ->
            ArgsSerializer_serialize_scalar
      [] v.shape = "int" ->
            IF v.w # 128 THEN ArgsSerializer_serialize_scalar
            ELSE IF v.signed THEN ArgsSerializer_serialize_i128
            ELSE ArgsSerializer_serialize_u128
      [] v.shape = "none" -> ArgsSerializer_serialize_none
      [] v.shape = "unit" -> ArgsSerializer_serialize_unit
      [] v.shape = "unit_struct" -> ArgsSerializer_serialize_unit_struct
      [] v.shape = "unit_variant" -> ArgsSerializer_serialize_unit_variant
      [] v.shape = "some" -> ArgsSerializer_serialize_some(v.inner)
      [] v.shape = "newtype_struct" ->
            ArgsSerializer_serialize_newtype_struct(v.name, v.inner)
      [] v.shape = "newtype_variant" ->
            ArgsSerializer_serialize_newtype_variant(v.name, v.variant, v.inner)
      [] v.shape = "seq" -> DriveArgsGuard(ArgsSerializer_serialize_seq)
      [] v.shape = "tuple" -> DriveArgsGuard(ArgsSerializer_serialize_tuple)
      [] v.shape = "tuple_struct" -> DriveArgsGuard(ArgsSerializer_serialize_tuple_struct)
      [] v.shape = "tuple_variant" ->
            DriveArgsGuard(ArgsSerializer_serialize_tuple_variant)
      [] v.shape = "map" -> ArgsSerializer_serialize_map
      [] v.shape = "struct" -> ArgsSerializer_serialize_struct
      [] v.shape = "struct_variant" -> ArgsSerializer_serialize_struct_variant
      [] v.shape = "failing" -> Closed(Err(Error_custom(v.msg)))

-----------------------------------------------------------------------------
(* SerMap, SerStruct, SerStructVariant.  self_args is the borrowed         *)
(* mapping, self_key the current_key field.                                *)

\* mutant: a key that is no String is skipped without a failure
Mut_SerMap_serialize_key(self_args, self_key, key) ==
    LET v == serialize_direct(key)
    IN IF ~v.res.ok
       THEN [res |-> v.res, args |-> self_args, current_key |-> self_key,
             guard |-> v.guard]
       ELSE IF v.res.val.tag = "String"
       THEN [res |-> IF is_some(self_key) THEN Err(InvalidSerMap) ELSE Ok(Unit),
             args |-> self_args, current_key |-> Some(v.res.val.text),
             guard |-> v.guard]
       ELSE [res |-> Ok(Unit), args |-> self_args,
             current_key |-> self_key, guard |-> v.guard]

\* mutant: a key call refused with InvalidSerMap keeps the key that was pending
Mut_SerMap_serialize_key_keep(self_args, self_key, key) ==
    LET v == serialize_direct(key)
    IN IF ~v.res.ok
       THEN [res |-> v.res, args |-> self_args, current_key |-> self_key,
             guard |-> v.guard]
       ELSE IF v.res.val.tag = "String"
       THEN IF is_some(self_key)
            THEN [res |-> Err(InvalidSerMap), args |-> self_args,
                  current_key |-> self_key, guard |-> v.guard]
            ELSE [res |-> Ok(Unit), args |-> self_args,
                  current_key |-> Some(v.res.val.text), guard |-> v.guard]
       ELSE [res |-> Err(UnsupportedType), args |-> self_args,
             current_key |-> self_key, guard |-> v.guard]

SerMap_serialize_key(self_args, self_key, key) ==
    LET v == serialize_direct(key)
    IN IF ~v.res.ok
       THEN [res |-> v.res, args |-> self_args, current_key |-> self_key,
             guard |-> v.guard]
       ELSE IF v.res.val.tag = "String"
       THEN \* current_key.replace(key) stores the new key and returns the old
            [res |-> IF is_some(self_key) THEN Err(InvalidSerMap) ELSE Ok(Unit),
             args |-> self_args, current_key |-> Some(v.res.val.text),
             guard |-> v.guard]
       ELSE [res |-> Err(UnsupportedType), args |-> self_args,
             current_key |-> self_key, guard |-> v.guard]

\* mutant: a successful value call leaves the key pending
Mut_SerMap_serialize_value(self_args, self_key, val) ==
    IF is_some(self_key)
    THEN LET v == serialize_direct(val)
         IN IF ~v.res.ok
            THEN [res |-> v.res, args |-> self_args, current_key |-> NoneOpt,
                  guard |-> v.guard]
            ELSE [res |-> Ok(Unit),
                  args |-> FluentArgs_set(self_args, self_key[1], v.res.val),
                  current_key |-> self_key, guard |-> v.guard]
    ELSE [res |-> Err(InvalidSerMap), args |-> self_args, current_key |-> self_key,
          guard |-> FALSE]

SerMap_serialize_value(self_args, self_key, val) ==
    IF is_some(self_key)
    THEN \* current_key.take() empties the field before the value is converted
         LET v == serialize_direct(val)
         IN IF ~v.res.ok
            THEN [res |-> v.res, args |-> self_args, current_key |-> NoneOpt,
                  guard |-> v.guard]
            ELSE [res |-> Ok(Unit),
                  args |-> FluentArgs_set(self_args, self_key[1], v.res.val),
                  current_key |-> NoneOpt, guard |-> v.guard]
    ELSE [res |-> Err(InvalidSerMap), args |-> self_args, current_key |-> self_key,
          guard |-> FALSE]

\* mutant: end() does not look at the pending key
Mut_SerMap_end(self_key) == Ok(Unit)

SerMap_end(self_key) ==
    IF is_none(self_key) THEN Ok(Unit) ELSE Err(InvalidSerMap)

\* mutant: a field whose key is already in the mapping is not written
Mut_SerStruct_serialize_field(self_args, key, val) ==
    LET v == serialize_direct(val)
    IN IF ~v.res.ok THEN [res |-> v.res, args |-> self_args, guard |-> v.guard]
       ELSE [res |-> Ok(Unit),
             args |-> IF \E i \in 1..Len(self_args) : self_args[i][1] = key
                      THEN self_args
                      ELSE FluentArgs_set(self_args, key, v.res.val),
             guard |-> v.guard]

SerStruct_serialize_field(self_args, key, val) ==
    LET v == serialize_direct(val)
    IN IF ~v.res.ok THEN [res |-> v.res, args |-> self_args, guard |-> v.guard]
       ELSE [res |-> Ok(Unit), args |-> FluentArgs_set(self_args, key, v.res.val),
             guard |-> v.guard]

SerStruct_end == Ok(Unit)

\* mutant: the failure of the value is replaced by UnsupportedType
Mut_SerStructVariant_serialize_field(self_args, key, val) ==
    LET v == serialize_direct(val)
    IN IF ~v.res.ok
       THEN [res |-> Err(UnsupportedType), args |-> self_args, guard |-> v.guard]
       ELSE [res |-> Ok(Unit), args |-> FluentArgs_set(self_args, key, v.res.val),
             guard |-> v.guard]

SerStructVariant_serialize_field(self_args, key, val) ==
    LET v == serialize_direct(val)
    IN IF ~v.res.ok THEN [res |-> v.res, args |-> self_args, guard |-> v.guard]
       ELSE [res |-> Ok(Unit), args |-> FluentArgs_set(self_args, key, v.res.val),
             guard |-> v.guard]

SerStructVariant_end == Ok(Unit)

-----------------------------------------------------------------------------
(* The values the checks draw from *)

T_foo == <<102, 111, 111>>
T_bar == <<98, 97, 114>>
T_baz == <<98, 97, 122>>
T_Foo == <<70, 111, 111>>
T_Bar == <<66, 97, 114>>
T_Baz == <<66, 97, 122>>

\* nesting depth of optional/newtype wrappers around a converted value
MaxDepth == 2
\* length of the byte strings given to serialize_bytes
MaxBytes == 4
\* nesting depth of wrappers around a top-level value of the ArgsSerializer
MaxWrap == 1

Wrap(S) ==
    S \cup {SomeV(x) : x \in S}
      \cup {NewtypeStruct(T_Foo, x) : x \in S}
      \cup {NewtypeVariant(T_Baz, T_Bar, x) : x \in S}

RECURSIVE Nest(_, _)
Nest(S, d) == IF d = 0 THEN S ELSE Wrap(Nest(S, d - 1))

\* integers of every width the protocol offers, around the limits of the
\* width and of the 53-bit significand
IntInputs ==
    { Integer(TRUE, 8, FALSE, NatBits(0)),
      Integer(TRUE, 8, TRUE, NatBits(128)),
      Integer(FALSE, 8, FALSE, NatBits(255)),
      Integer(TRUE, 16, TRUE, NatBits(1)),
      Integer(FALSE, 16, FALSE, NatBits(65535)),
      Integer(TRUE, 32, FALSE, NatBits(42)),
      Integer(FALSE, 32, FALSE, Ones(32)),
      Integer(TRUE, 64, FALSE, Pow2Plus(53, 0)),
      Integer(TRUE, 64, FALSE, Pow2Plus(53, 1)),
      Integer(TRUE, 64, TRUE, Pow2Plus(53, 3)),
      Integer(TRUE, 64, FALSE, Pow2Plus(54, 2)),
      Integer(TRUE, 64, FALSE, Pow2Plus(54, 6)),
      Integer(TRUE, 64, FALSE, Ones(63)),
      Integer(FALSE, 64, FALSE, Ones(64)),
      Integer(TRUE, 128, FALSE, Pow2Plus(100, 1)),
      Integer(TRUE, 128, FALSE, Pow2Plus(100, 0)),
      Integer(TRUE, 128, TRUE, Pow2Plus(127, 0)),
      Integer(FALSE, 128, FALSE, Ones(128)) }

FloatInputs ==
    { Float(32, Double(FALSE, NatBits(1))),
      Float(32, Double(TRUE, Pow2Plus(23, 1))),
      Float(64, Double(FALSE, Pow2Plus(52, 1))) }

CompositeInputs ==
    { SeqV(<<Bool(TRUE), Bool(FALSE), Bool(TRUE)>>), SeqV(<<>>),
      TupleV(<<Str(T_foo), UnitV>>),
      TupleStruct(T_Foo, <<UnitV>>),
      TupleVariant(T_Baz, T_Bar, <<UnitV>>),
      MapV(<<>>), MapV(<<<<Str(T_foo), Str(T_bar)>>>>),
      StructV(T_Foo, <<>>), StructV(T_Foo, <<<<T_foo, Str(T_bar)>>>>),
      StructVariant(T_Baz, T_Bar, <<<<T_foo, UnitV>>>>) }

ScalarInputs ==
    { Bool(TRUE), Bool(FALSE) } \cup IntInputs \cup FloatInputs \cup
    { Char(97), Char(233), Char(128512),
      Str(<<>>), Str(T_foo), Str(<<233, 128512>>),
      NoneV, UnitV, UnitStruct(T_Foo), UnitVariant(T_Baz, T_Bar),
      Failing("boom") }

ByteAlphabet == {102, 111, 128, 144, 160, 191, 192, 194, 224, 237, 240, 244, 255}

CoerceInputs ==
    Nest(ScalarInputs \cup CompositeInputs \cup {Bytes(T_foo), Bytes(<<255>>)}, MaxDepth)

-----------------------------------------------------------------------------
(* SpecCoerce: one fresh ValueSerializer converts one value *)

InitCommon ==
    /\ value = ValueSerializer_new
    /\ prev_value = NoneOpt
    /\ result = Ok(Unit)
    /\ called = ""
    /\ guard = FALSE
    /\ args = ArgsSerializer_new
    /\ args0 = ArgsSerializer_new
    /\ prev_args = <<>>
    /\ current_key = NoneOpt
    /\ prev_key = NoneOpt
    /\ live = "none"
    /\ merged = <<>>
    /\ presented = {}
    /\ offered = NoneOpt
    /\ map_ok = TRUE
    /\ lead = 0
    /\ fails = 0
    /\ returned = NoneOpt

InitCoerce ==
    /\ InitCommon
    /\ \/ input \in CoerceInputs
       \/ \E n \in 0..MaxBytes : \E b \in [1..n -> ByteAlphabet] :
             input = Bytes([i \in 1..n |-> b[i]])

Convert ==
    /\ called = ""
    /\ LET r == Value_serialize(value, input)
       IN /\ value' = r.value
          /\ result' = r.res
          /\ guard' = r.guard
    /\ prev_value' = value
    /\ called' = "serialize"
    /\ UNCHANGED input
    /\ UNCHANGED argsVars

NextCoerce == Convert

SpecCoerce == InitCoerce /\ [][NextCoerce]_vars

-----------------------------------------------------------------------------
(* SpecSlot: any sequence of visits on one ValueSerializer *)

SlotInputs ==
    Nest({ Bool(TRUE), Integer(TRUE, 32, FALSE, NatBits(42)), Char(97), Str(T_foo),
           NoneV, UnitStruct(T_Foo), Bytes(T_foo), Bytes(<<255>>),
           SeqV(<<>>), StructV(T_Foo, <<>>), Failing("boom") }, MaxDepth)

InitSlot == InitCommon /\ input = UnitV

Visit(v) ==
    /\ LET r == Value_serialize(value, v)
       IN /\ value' = r.value
          /\ result' = r.res
          /\ guard' = (guard \/ r.guard)
    /\ prev_value' = value
    /\ input' = v
    /\ called' = "serialize"
    /\ UNCHANGED argsVars

NextSlot == \E v \in SlotInputs : Visit(v)

SpecSlot == InitSlot /\ [][NextSlot]_vars

-----------------------------------------------------------------------------
(* Properties of the single-value converter *)

RECURSIVE Innermost(_)
Innermost(v) == IF v.shape \in Wrappers THEN Innermost(v.inner) ELSE v

\* the integer is a double: its set digits span at most 53 positions
Representable(mag) ==
    \A i, j \in 1..Len(mag) :
        (mag[i] = 1 /\ mag[j] = 1) => j - i < F64_MANTISSA_DIGITS

\* the coercion table of the specification, for the shapes with a fixed row
TableRow(x) ==
    CASE x.shape = "bool" ->
            FluentNumber(Double(FALSE, IF x.b THEN <<1>> ELSE <<>>))
      [] x.shape = "char" -> FluentString(<<x.c>>)
      [] x.shape = "str" -> FluentString(x.text)
      [] x.shape \in {"none", "unit"} -> FluentNone
      [] x.shape = "unit_struct" -> FluentString(x.name)
      [] x.shape = "unit_variant" -> FluentString(x.variant)

\* C5: a fresh single-value converter reproduces the coercion table for every
\* non-composite shape: true is Number(1) and false Number(0); a character or
\* text is String of it; the absent marker and unit are Absent; a named unit is
\* String(type name) and a unit variant String(variant name); an integer of
\* any width is a Number, never an error, and exactly the integer when a
\* double can hold it; and any nesting of optional/newtype wrappers gives the
\* result of the innermost value.
C5_CoercionTable ==
    called = "serialize" =>
        LET x == Innermost(input)
        IN /\ x.shape \in {"bool", "char", "str", "none", "unit", "unit_struct",
                           "unit_variant"}
                => result = Ok(Unit) /\ value = Some(TableRow(x))
           /\ x.shape = "int"
                => /\ result = Ok(Unit)
                   /\ is_some(value)
                   /\ value[1].tag = "Number"
                   /\ value[1].n.neg = x.neg
                   /\ Len(value[1].n.mag) \in {Len(x.mag), Len(x.mag) + 1}
                   /\ Representable(x.mag) => value[1].n = Double(x.neg, x.mag)

\* a 128-bit integer no double holds, under two wrappers, came out as the
\* nearest double without an error
C5_Witness ==
    /\ called = "serialize"
    /\ input = SomeV(NewtypeStruct(T_Foo, Integer(TRUE, 128, FALSE, Pow2Plus(100, 1))))
    /\ result = Ok(Unit)
    /\ value = Some(FluentNumber(Double(FALSE, Pow2Plus(100, 0))))

\* UTF-8 as the image of the encoder of one scalar value
IsScalar(cp) == cp >= 0 /\ cp <= 1114111 /\ ~(cp >= 55296 /\ cp <= 57343)

Utf8Encode(cp) ==
    IF cp < 128 THEN <<cp>>
    ELSE IF cp < 2048 THEN <<192 + (cp \div 64), 128 + (cp % 64)>>
    ELSE IF cp < 65536
    THEN <<224 + (cp \div 4096), 128 + ((cp \div 64) % 64), 128 + (cp % 64)>>
    ELSE <<240 + (cp \div 262144), 128 + ((cp \div 4096) % 64),
           128 + ((cp \div 64) % 64), 128 + (cp % 64)>>

RECURSIVE Utf8EncodeText(_)
Utf8EncodeText(t) ==
    IF t = <<>> THEN <<>> ELSE Utf8Encode(t[1]) \o Utf8EncodeText(Tail(t))

\* the payload bits of a chunk of 1 to 4 bytes read as one encoded character
PayloadBits(c) ==
    CASE Len(c) = 1 -> c[1]
      [] Len(c) = 2 -> (c[1] % 32) * 64 + (c[2] % 64)
      [] Len(c) = 3 -> (c[1] % 16) * 4096 + (c[2] % 64) * 64 + (c[3] % 64)
      [] Len(c) = 4 -> (c[1] % 8) * 262144 + (c[2] % 64) * 4096
                       + (c[3] % 64) * 64 + (c[4] % 64)

IsEncodedChar(c) == IsScalar(PayloadBits(c)) /\ Utf8Encode(PayloadBits(c)) = c

\* the bytes are the encoding of some text
RECURSIVE IsUtf8(_)
IsUtf8(b) ==
    \/ b = <<>>
    \/ \E n \in 1..4 :
          /\ n <= Len(b)
          /\ IsEncodedChar(SubSeq(b, 1, n))
          /\ IsUtf8(SubSeq(b, n + 1, Len(b)))

\* C6: bytes that are valid UTF-8 convert to String of the decoded text; bytes
\* that are not fail with NonUtf8Bytes and leave the slot empty.
C6_Bytes ==
    (called = "serialize" /\ input.shape = "bytes") =>
        IF IsUtf8(input.bytes)
        THEN /\ result = Ok(Unit)
             /\ is_some(value)
             /\ value[1].tag = "String"
             /\ \A i \in 1..Len(value[1].text) : IsScalar(value[1].text[i])
             /\ Utf8EncodeText(value[1].text) = input.bytes
             /\ input.bytes = T_foo => value = Some(FluentString(T_foo))
        ELSE result = Err(NonUtf8Bytes) /\ value = NoneOpt

\* a truncated three-byte sequence was refused and the slot is empty
C6_Witness ==
    /\ called = "serialize"
    /\ input = Bytes(<<102, 224, 160>>)
    /\ result = Err(NonUtf8Bytes)
    /\ value = NoneOpt

\* a visit that has a value to write: its innermost value is a scalar, text,
\* valid bytes, an absent marker or a bare tag
ValueProducing(v) ==
    LET x == Innermost(v)
    IN /\ x.shape \notin CompositeShapes \cup {"failing"}
       /\ x.shape = "bytes" => IsUtf8(x.bytes)

\* C9: the slot of one ValueSerializer is written at most once: the first
\* value-producing visit on the empty slot succeeds and fills it, every later
\* one fails with AlreadyUsed, and a filled slot keeps its value whatever is
\* visited afterwards.
C9_WriteOnce ==
    called = "serialize" =>
        /\ (is_none(prev_value) /\ ValueProducing(input))
              => result = Ok(Unit) /\ is_some(value)
        /\ (is_some(prev_value) /\ ValueProducing(input))
              => result = Err(AlreadyUsed)
        /\ is_some(prev_value) => value = prev_value

\* a second write was refused and the first value kept
C9_Witness ==
    /\ called = "serialize"
    /\ prev_value = Some(FluentString(T_foo))
    /\ input = Bool(TRUE)
    /\ result = Err(AlreadyUsed)
    /\ value = Some(FluentString(T_foo))

-----------------------------------------------------------------------------
(* Spec: one ArgsSerializer, from construction to done().  A Serialize     *)
(* implementation is any caller of the interface it was handed: the calls  *)
(* on a live SerMap, SerStruct or SerStructVariant come in any order, with *)
(* any argument, and the interface may be dropped at any point (as `?`     *)
(* does after a failure).  A top-level composite value therefore carries   *)
(* no content here: its pairs and fields are the calls that follow.        *)

TopLeaves ==
    { Bool(TRUE),
      Integer(TRUE, 8, TRUE, NatBits(1)), Integer(FALSE, 8, FALSE, NatBits(255)),
      Integer(TRUE, 16, FALSE, NatBits(7)), Integer(FALSE, 16, FALSE, NatBits(7)),
      Integer(TRUE, 32, FALSE, NatBits(42)), Integer(FALSE, 32, FALSE, NatBits(42)),
      Integer(TRUE, 64, TRUE, NatBits(42)), Integer(FALSE, 64, FALSE, Ones(64)),
      Integer(TRUE, 128, FALSE, NatBits(1)), Integer(FALSE, 128, FALSE, Ones(128)),
      Float(32, Double(FALSE, NatBits(1))), Float(64, Double(TRUE, NatBits(3))),
      Char(97), Str(T_foo), Bytes(T_foo),
      NoneV, UnitV, UnitStruct(T_Foo), UnitVariant(T_Baz, T_Bar),
      SeqV(<<>>), TupleV(<<>>), TupleStruct(T_Foo, <<>>),
      TupleVariant(T_Baz, T_Bar, <<>>),
      MapV(<<>>), StructV(T_Foo, <<>>), StructVariant(T_Baz, T_Bar, <<>>),
      Failing("boom") }

\* the values the wrappers are put around: one of each kind of outcome
WrappedLeaves ==
    { Bool(TRUE), Integer(TRUE, 128, FALSE, NatBits(1)), Str(T_foo), NoneV, UnitV,
      SeqV(<<>>), MapV(<<>>), StructV(T_Foo, <<>>), StructVariant(T_Baz, T_Bar, <<>>),
      Failing("boom") }

TopInputs == TopLeaves \cup Nest(WrappedLeaves, MaxWrap)

\* the text a key value stands for, when it stands for one
KeyText(k) ==
    LET r == serialize_direct(k).res
    IN IF r.ok /\ r.val.tag = "String" THEN Some(r.val.text) ELSE NoneOpt

KeyInputs ==
    { Str(T_foo), Str(T_bar), Bytes(T_foo),
      Integer(TRUE, 32, FALSE, NatBits(42)), Bool(TRUE),
      Float(64, Double(FALSE, NatBits(1))), NoneV, UnitV,
      SeqV(<<>>), TupleV(<<>>), TupleStruct(T_Foo, <<>>),
      TupleVariant(T_Baz, T_Bar, <<>>), MapV(<<>>), StructV(T_Foo, <<>>),
      StructVariant(T_Baz, T_Bar, <<>>), Bytes(<<255>>), Failing("boom") }

ValueInputs ==
    { Integer(TRUE, 32, FALSE, NatBits(42)), Str(T_baz),
      NewtypeStruct(T_Foo, NoneV),
      SeqV(<<>>), Bytes(<<255>>), Failing("boom") }

FieldNames == {T_foo, T_bar}

\* new(), or from_existing of a mapping built with FluentArgs::set
InitialArgs ==
    { ArgsSerializer_new,
      ArgsSerializer_from_existing(<<<<T_foo, FluentString(T_bar)>>>>),
      ArgsSerializer_from_existing(
          <<<<T_bar, FluentNone>>,
            <<T_baz, FluentNumber(Double(FALSE, NatBits(7)))>>>>) }

Keys(a) == {a[i][1] : i \in 1..Len(a)}

\* the mapping as a function of its keys
AsMap(a) ==
    [k \in Keys(a) |-> a[CHOOSE i \in 1..Len(a) : a[i][1] = k][2]]

Override(m, k, v) == [x \in DOMAIN m \cup {k} |-> IF x = k THEN v ELSE m[x]]

Bump(n) == IF n >= 2 THEN 2 ELSE n + 1

Init ==
    /\ value = NoneOpt
    /\ prev_value = NoneOpt
    /\ input = UnitV
    /\ result = Ok(Unit)
    /\ called = ""
    /\ guard = FALSE
    /\ args0 \in InitialArgs
    /\ args = args0
    /\ prev_args = args0
    /\ current_key = NoneOpt
    /\ prev_key = NoneOpt
    /\ live = "none"
    /\ merged = AsMap(args0)
    /\ presented = {}
    /\ offered = NoneOpt
    /\ map_ok = TRUE
    /\ lead = 0
    /\ fails = 0
    /\ returned = NoneOpt

\* bookkeeping shared by every call: what it was given, what it returned, and
\* the state it found
Record(name, arg, res) ==
    /\ called' = name
    /\ input' = arg
    /\ result' = res
    /\ prev_args' = args
    /\ prev_key' = current_key
    /\ fails' = IF res.ok THEN fails ELSE Bump(fails)
    /\ UNCHANGED <<value, prev_value, args0, returned>>

\* the ghost record of what the caller presented; it is kept while no call
\* has failed and dropped by the first call made after a failure
Ghost(m, p, o) ==
    /\ offered' = o
    /\ IF fails = 0
       THEN merged' = m /\ presented' = p
       ELSE merged' = AsMap(<<>>) /\ presented' = {}

Clamp(n) == IF n < -1 THEN -1 ELSE IF n > 2 THEN 2 ELSE n

\* the ghost count of one SerMap: d is what a successful call adds to the
\* lead of key calls; the count is dropped once a call on the SerMap failed
Count(res, d) ==
    /\ map_ok' = (map_ok /\ res.ok)
    /\ lead' = IF map_ok /\ res.ok THEN Clamp(lead + d) ELSE 0

Uncounted == map_ok' = TRUE /\ lead' = 0

\* v.serialize(&mut ser)
Serialize(v) ==
    /\ live = "none"
    /\ LET r == Args_serialize(v)
       IN /\ Record("serialize", v, r.res)
          /\ live' = r.open
          /\ guard' = (guard \/ r.guard)
    /\ current_key' = NoneOpt
    /\ Ghost(merged, presented, NoneOpt)
    /\ Uncounted
    /\ UNCHANGED args

SerializeKey(k) ==
    /\ live = "map"
    /\ LET r == SerMap_serialize_key(args, current_key, k)
       IN /\ Record("serialize_key", k, r.res)
          /\ args' = r.args
          /\ current_key' = r.current_key
          /\ guard' = (guard \/ r.guard)
          /\ Ghost(merged, presented,
                   IF r.res.ok THEN KeyText(k) ELSE offered)
          /\ Count(r.res, 1)
    /\ UNCHANGED live

SerializeValue(v) ==
    /\ live = "map"
    /\ LET r == SerMap_serialize_value(args, current_key, v)
       IN /\ Record("serialize_value", v, r.res)
          /\ args' = r.args
          /\ current_key' = r.current_key
          /\ guard' = (guard \/ r.guard)
          /\ IF r.res.ok /\ is_some(offered)
             THEN Ghost(Override(merged, offered[1], serialize_direct(v).res.val),
                        presented \cup {offered[1]}, NoneOpt)
             ELSE Ghost(merged, presented, NoneOpt)
          /\ Count(r.res, -1)
    /\ UNCHANGED live

MapEnd ==
    /\ live = "map"
    /\ Record("end", UnitV, SerMap_end(current_key))
    /\ live' = "none"
    /\ current_key' = NoneOpt
    /\ Ghost(merged, presented, NoneOpt)
    /\ Uncounted
    /\ UNCHANGED <<args, guard>>

StructField(name, v) ==
    /\ live = "struct"
    /\ LET r == SerStruct_serialize_field(args, name, v)
       IN /\ Record("serialize_field", v, r.res)
          /\ args' = r.args
          /\ guard' = (guard \/ r.guard)
          /\ IF r.res.ok
             THEN Ghost(Override(merged, name, serialize_direct(v).res.val),
                        presented \cup {name}, offered)
             ELSE Ghost(merged, presented, offered)
    /\ UNCHANGED <<live, current_key, map_ok, lead>>

StructEnd ==
    /\ live = "struct"
    /\ Record("end", UnitV, SerStruct_end)
    /\ live' = "none"
    /\ Ghost(merged, presented, offered)
    /\ UNCHANGED <<args, current_key, guard, map_ok, lead>>

VariantField(name, v) ==
    /\ live = "variant"
    /\ LET r == SerStructVariant_serialize_field(args, name, v)
       IN /\ Record("serialize_field", v, r.res)
          /\ args' = r.args
          /\ guard' = (guard \/ r.guard)
          /\ IF r.res.ok
             THEN Ghost(Override(merged, name, serialize_direct(v).res.val),
                        presented \cup {name}, offered)
             ELSE Ghost(merged, presented, offered)
    /\ UNCHANGED <<live, current_key, map_ok, lead>>

VariantEnd ==
    /\ live = "variant"
    /\ Record("end", UnitV, SerStructVariant_end)
    /\ live' = "none"
    /\ Ghost(merged, presented, offered)
    /\ UNCHANGED <<args, current_key, guard, map_ok, lead>>

\* the interface goes out of scope without end(), as it does when `?` returns
\* a failure from the Serialize implementation
Drop ==
    /\ live \in {"map", "struct", "variant"}
    /\ live' = "none"
    /\ current_key' = NoneOpt
    /\ offered' = NoneOpt
    /\ Uncounted
    /\ called' = "drop"
    /\ UNCHANGED <<value, input, result, prev_value, guard, args, prev_args,
                   prev_key, args0, merged, presented, fails, returned>>

Done ==
    /\ live = "none"
    /\ live' = "done"
    /\ called' = "done"
    /\ returned' = Some(ArgsSerializer_done(args))
    /\ UNCHANGED <<value, input, result, prev_value, guard, args, current_key,
                   prev_args, prev_key, args0, merged, presented, offered,
                   map_ok, lead, fails>>

Next ==
    \/ \E v \in TopInputs : Serialize(v)
    \/ \E k \in KeyInputs : SerializeKey(k)
    \/ \E v \in ValueInputs : SerializeValue(v)
    \/ MapEnd
    \/ \E n \in FieldNames, v \in ValueInputs : StructField(n, v)
    \/ StructEnd
    \/ \E n \in FieldNames, v \in ValueInputs : VariantField(n, v)
    \/ VariantEnd
    \/ Drop
    \/ Done

Spec == Init /\ [][Next]_vars

-----------------------------------------------------------------------------
(* Properties of the aggregate converter *)

NoDuplicateKeys(a) == \A i, j \in 1..Len(a) : a[i][1] = a[j][1] => i = j

\* the single-value converter resolves k to the String variant
ResolvesToString(k) ==
    LET x == Innermost(k)
    IN \/ x.shape \in {"char", "str", "unit_struct", "unit_variant"}
       \/ x.shape = "bytes" /\ IsUtf8(x.bytes)

\* the failure of the single-value converter on a value it cannot convert
ConversionError(v) ==
    LET x == Innermost(v)
    IN CASE x.shape = "failing" -> Error_custom(x.msg)
         [] x.shape = "bytes" -> NonUtf8Bytes
         [] x.shape \in CompositeShapes -> UnsupportedType

\* C1: on a SerMap, a key call with a String key while a key is pending, a
\* value call with no key pending, and end() with a key pending each fail
\* with InvalidSerMap, and no other call returns InvalidSerMap.
C1_InvalidSerMap ==
    LET twoKeys == called = "serialize_key" /\ ResolvesToString(input)
                     /\ is_some(prev_key)
        noKey == called = "serialize_value" /\ is_none(prev_key)
        dangling == called = "end" /\ is_some(prev_key)
    IN /\ (twoKeys \/ noKey \/ dangling) => result = Err(InvalidSerMap)
       /\ (called \in {"serialize", "serialize_key", "serialize_value",
                       "serialize_field", "end"}
             /\ result = Err(InvalidSerMap))
            => (twoKeys \/ noKey \/ dangling)

\* end() was refused because a key was still pending
C1_Witness ==
    /\ called = "end"
    /\ prev_key = Some(T_foo)
    /\ result = Err(InvalidSerMap)

\* C2: when every call on the ArgsSerializer succeeded, done() returns the
\* initial mapping overridden by each presented (key, converted value) pair
\* in presentation order: no key twice, each presented key with its latest
\* value, each key of the initial mapping never presented with its old value.
C2_Merge ==
    (called = "done" /\ fails = 0) =>
        /\ is_some(returned)
        /\ NoDuplicateKeys(returned[1])
        /\ Keys(returned[1]) = Keys(args0) \cup presented
        /\ AsMap(returned[1]) = merged
        /\ \A k \in Keys(args0) \ presented :
              AsMap(returned[1])[k] = AsMap(args0)[k]

\* the initial foo was overwritten by a later input and bar was added
C2_Witness ==
    /\ called = "done"
    /\ fails = 0
    /\ args0 = <<<<T_foo, FluentString(T_bar)>>>>
    /\ returned = Some(<<<<T_bar, FluentString(T_baz)>>,
                         <<T_foo, FluentNumber(Double(FALSE, NatBits(42)))>>>>)

\* C3: a top-level scalar, sequence or tuple shape given to the ArgsSerializer
\* fails with UnsupportedType, for every integer width up to 128 bits, and
\* leaves the mapping unchanged.
C3_TopLevelUnsupported ==
    (called = "serialize"
       /\ input.shape \in {"bool", "int", "float", "char", "str", "bytes"}
                          \cup GuardShapes)
      => result = Err(UnsupportedType) /\ args = prev_args

\* C4: serialize_key accepts a key only if it resolves to String; a key that
\* resolves to Number or Absent fails with UnsupportedType, a composite key or
\* invalid UTF-8 bytes fail with the single-value converter's own error, and
\* no such failure inserts anything.
C4_KeyMustBeString ==
    called = "serialize_key" =>
        LET x == Innermost(input)
        IN /\ result.ok => ResolvesToString(input)
           /\ x.shape \in {"bool", "int", "float", "none", "unit"}
                => result = Err(UnsupportedType)
           /\ (x.shape \in CompositeShapes \cup {"failing"}
                 \/ (x.shape = "bytes" /\ ~IsUtf8(x.bytes)))
                => result = Err(ConversionError(input))
           /\ ~ResolvesToString(input) => args = prev_args /\ current_key = prev_key

\* a key that resolved to a Number was refused
C4_Witness ==
    /\ called = "serialize_key"
    /\ input = Integer(TRUE, 32, FALSE, NatBits(42))
    /\ result = Err(UnsupportedType)
    /\ args = prev_args

\* C7: every entry point typed to hand out the Unsupported guard returns
\* UnsupportedType (the seven composite ones of the single-value converter,
\* the four sequence/tuple ones of the aggregate converter), so no guard value
\* exists and no guard method runs.
C7_GuardNeverBuilt ==
    /\ guard = FALSE
    /\ result # Err(Unreachable)
    /\ (called = "serialize" /\ Innermost(input).shape \in GuardShapes)
         => result = Err(UnsupportedType)
    /\ ((called \in {"serialize_key", "serialize_field"}
          \/ (called = "serialize_value" /\ is_some(prev_key)))
        /\ Innermost(input).shape \in CompositeShapes)
         => result = Err(UnsupportedType)

\* a struct variant given as a map key was refused by the single-value converter
C7_Witness ==
    /\ called = "serialize_key"
    /\ input = StructVariant(T_Baz, T_Bar, <<>>)
    /\ result = Err(UnsupportedType)
    /\ guard = FALSE

\* C8: when the value of a struct field or of a map pair fails to convert,
\* the call returns that failure itself and inserts nothing, so the mapping
\* holds its prior content and the pairs that succeeded before.
C8_FailFast ==
    ((called = "serialize_field" \/ (called = "serialize_value" /\ is_some(prev_key)))
       /\ ~ValueProducing(input))
      => /\ result = Err(ConversionError(input))
         /\ args = prev_args
         /\ fails = 1 => AsMap(args) = merged

\* the second field failed inside the value; the first field's insertion stays
C8_Witness ==
    /\ called = "serialize_field"
    /\ input = Failing("boom")
    /\ result = Err(Error_custom("boom"))
    /\ fails = 1
    /\ args0 = <<>>
    /\ args = <<<<T_foo, FluentNumber(Double(FALSE, NatBits(42)))>>>>

\* C10: at the top level of the ArgsSerializer an absent marker or unit is a
\* successful no-op, and an optional/newtype wrapper around x has the outcome
\* of x itself: around a struct it opens the struct, around a scalar it fails
\* with UnsupportedType.
C10_Wrappers ==
    called = "serialize" =>
        /\ input.shape \in {"none", "unit"}
             => result = Ok(Unit) /\ args = prev_args /\ live = "none"
        /\ input.shape \in Wrappers
             => /\ result = Args_serialize(input.inner).res
                /\ live = Args_serialize(input.inner).open
                /\ args = prev_args
                /\ Innermost(input).shape = "struct"
                     => result.ok /\ live = "struct"
                /\ Innermost(input).shape \in
                       {"bool", "int", "float", "char", "str", "bytes"}
                     => result = Err(UnsupportedType)

\* a2 is a with exactly the pair (k, v) put in: k is there once with v, and
\* every other key is there as before
InsertsOne(a, a2, k, v) ==
    /\ NoDuplicateKeys(a2)
    /\ Keys(a2) = Keys(a) \cup {k}
    /\ AsMap(a2)[k] = v
    /\ \A x \in Keys(a) \ {k} : AsMap(a2)[x] = AsMap(a)[x]

\* one call on a SerMap on which every call so far has succeeded
C11_Step ==
    LET keyCall == live = "map" /\ called' = "serialize_key"
        valueCall == live = "map" /\ called' = "serialize_value"
        endCall == live = "map" /\ called' = "end"
    IN map_ok =>
         /\ (keyCall /\ result'.ok)
              => /\ lead = 0
                 /\ args' = args
                 /\ is_some(KeyText(input'))
                 /\ current_key' = KeyText(input')
         /\ (valueCall /\ result'.ok)
              => /\ lead = 1
                 /\ is_some(offered)
                 /\ InsertsOne(args, args', offered[1],
                               serialize_direct(input').res.val)
         /\ endCall => (result'.ok <=> lead = 0)
         /\ (live' = "map" /\ map_ok') => (is_some(current_key') <=> lead' = 1)

\* C11: while every call on one SerMap returns success the key and value
\* calls strictly alternate starting with a key, each successful value call
\* inserts exactly one pair under the key of the key call just before it, the
\* pending key is set exactly between a successful key call and the next
\* value call, and end() succeeds exactly when as many value calls as key
\* calls have succeeded.
C11_Alternation == [][C11_Step]_vars

\* a key call and then a value call succeeded on a SerMap: the pair is in the
\* mapping under that key and no key is pending
C11_Witness ==
    /\ live = "map"
    /\ called = "serialize_value"
    /\ result = Ok(Unit)
    /\ map_ok
    /\ lead = 0
    /\ prev_key = Some(T_bar)
    /\ current_key = NoneOpt
    /\ args0 = <<<<T_foo, FluentString(T_bar)>>>>
    /\ args = <<<<T_bar, FluentString(T_baz)>>, <<T_foo, FluentString(T_bar)>>>>

\* C12: the pending key after a SerMap call depends on the call and not on
\* its outcome. A key call whose key resolves to a String leaves that key
\* pending even when it returned InvalidSerMap, so the next value call inserts
\* under it; a value call made with a key pending leaves no key pending even
\* when the value failed to convert, so nothing was inserted and a following
\* end() succeeds; a key call whose key fails to convert or is no String
\* leaves the pending key as it was. No failing call changes the mapping.
C12_PendingKey ==
    /\ (called = "serialize_key" /\ ResolvesToString(input))
         => /\ current_key = KeyText(input)
            /\ is_some(current_key)
            /\ result = (IF is_some(prev_key) THEN Err(InvalidSerMap) ELSE Ok(Unit))
    /\ (called = "serialize_key" /\ ~ResolvesToString(input))
         => ~result.ok /\ current_key = prev_key
    /\ (called = "serialize_value" /\ is_some(prev_key))
         => /\ current_key = NoneOpt
            /\ IF ValueProducing(input)
               THEN /\ result = Ok(Unit)
                    /\ InsertsOne(prev_args, args, prev_key[1],
                                  serialize_direct(input).res.val)
               ELSE result = Err(ConversionError(input))
    /\ (called = "end" /\ is_none(prev_key)) => result = Ok(Unit)
    /\ (called \in {"serialize_key", "serialize_value", "end"} /\ ~result.ok)
         => args = prev_args

\* a second key call in a row was refused, and its key replaced the pending one
C12_Witness ==
    /\ called = "serialize_key"
    /\ input = Str(T_bar)
    /\ result = Err(InvalidSerMap)
    /\ prev_key = Some(T_foo)
    /\ current_key = Some(T_bar)
    /\ args = prev_args

====
